---- MODULE Spec2Model ----
(***************************************************************************)
(* Model of gutbuster's game-server discovery and polling subsystem:       *)
(*   - the packet codec            (src/gutbuster/servers/packet.py)       *)
(*   - the query client ("knock")  (src/gutbuster/servers/server.py)       *)
(*   - the watcher and poll loop   (src/gutbuster/servers/watcher.py,      *)
(*                                  src/gutbuster/app.py)                  *)
(*                                                                         *)
(* Byte buffers are sequences of 0..255 (1-based here, 0-based in Python). *)
(* A Python call either returns a value or raises: Ok(v) / Raise(exc,arg). *)
(* Python ints are unbounded; every integer of the model stays far below   *)
(* 2^31, the buffers being chosen so.                                      *)
(***************************************************************************)
EXTENDS Integers, Sequences, FiniteSets, TLC

(***************************************************************************)
(* Results of calls                                                        *)
(***************************************************************************)
Ok(v) == [ok |-> TRUE, val |-> v]
\* args: the tuple of arguments the exception carries
Raise(exc, args) == [ok |-> FALSE, exc |-> exc, args |-> args]

\* Optional[T]: <<>> is None, <<v>> is the value v
None == <<>>
Some(v) == <<v>>
\* an Optional[int] argument that is None (cstrlen's n)
NoInt == -1

\* class PacketError and its subclasses
PacketError == {"PacketError", "MissingHeaderError", "BadChecksumError", "PacketTypeError"}

(***************************************************************************)
(* packet.py: constants and enums                                          *)
(***************************************************************************)
RINGRACERS_VERSION == 2
MAX_PLAYERS == 16

RefuseReason == {0, 1, 2}
GameSpeed == {0, 1, 2}
ASKINFO == 12
SERVERINFO == 13
PLAYERINFO == 14
TELLFILESNEEDED == 32
MOREFILESNEEDED == 33
PacketType == {ASKINFO, SERVERINFO, PLAYERINFO, TELLFILESNEEDED, MOREFILESNEEDED}
\* ServerFlags.all().value = 0x20 | 0x40 | 0x80
ServerFlags_all == 224

\* the registry filled by the @packet decorator: tag -> class
packet_types == (ASKINFO :> "AskPacket") @@ (SERVERINFO :> "ServerInfoPacket")
                @@ (PLAYERINFO :> "PlayerInfoPacket")

(***************************************************************************)
(* Helpers for Python builtins and the struct module (little-endian host)  *)
(***************************************************************************)
Zeros(n) == [i \in 1..n |-> 0]

\* b[lo:hi] of Python, lo and hi 0-based and within bounds
Slice(b, lo, hi) == SubSeq(b, lo + 1, hi)

\* Python integers are unbounded and those of TLC are not: an integer that
\* can pass 2^31 (a checksum, a struct "I" field) is the pair <<hi, lo>> of
\* the value hi * 65536 + lo, with lo in 0..65535
U32(v) == <<v \div 65536, v % 65536>>

\* a + b on such pairs
WAdd(a, b) ==
    LET lo == a[2] + b[2]
    IN  <<a[1] + b[1] + (lo \div 65536), lo % 65536>>

\* int.from_bytes(b, byteorder="little", signed=False) of up to four bytes,
\* also struct "I"
int_from_bytes(b) ==
    LET at(i) == IF i <= Len(b) THEN b[i] ELSE 0
    IN  <<at(3) + 256 * at(4), at(1) + 256 * at(2)>>

\* struct.pack("I", v), for v within the format's range 0..2^32-1
struct_pack_I(v) ==
    <<v[2] % 256, v[2] \div 256, v[1] % 256, (v[1] \div 256) % 256>>

struct_pack_H(v) == <<v % 256, (v \div 256) % 256>>

\* bytes.find(b"\0", offset): 0-based index of the first null at or after
\* offset, -1 when there is none
find_null(s, offset) ==
    LET hits == {i \in (offset + 1)..Len(s) : s[i] = 0}
    IN  IF hits = {} THEN -1
        ELSE (CHOOSE i \in hits : \A j \in hits : i <= j) - 1

\* a & b on bytes
RECURSIVE BitAnd(_, _)
BitAnd(a, b) ==
    IF a = 0 \/ b = 0 THEN 0
    ELSE (IF a % 2 = 1 /\ b % 2 = 1 THEN 1 ELSE 0) + 2 * BitAnd(a \div 2, b \div 2)

\* the character codes of one lower-case hex digit, and of a space
HexDigit(d) == IF d < 10 THEN 48 + d ELSE 87 + d
Space == 32

\* f"{num:2x}": lower-case hex, padded with spaces to width 2
format_2x(num) ==
    IF num < 16 THEN <<Space, HexDigit(num)>>
    ELSE <<HexDigit(num \div 16), HexDigit(num % 16)>>

\* bytes.hex(): two hex digits per byte
RECURSIVE bytes_hex(_)
bytes_hex(b) ==
    IF Len(b) = 0 THEN <<>>
    ELSE <<HexDigit(b[1] \div 16), HexDigit(b[1] % 16)>> \o bytes_hex(Tail(b))

(***************************************************************************)
(* net_checksum                                                            *)
(***************************************************************************)
CHECKSUM_SEED == 19088743       \* 0x1234567

\* the sum the loop of net_checksum adds up, for i in lo..hi (0-based):
\* packet[i + offset] * (i + 1).  Python integers do not wrap, so the sum
\* is split in halves only to keep the evaluation shallow.
RECURSIVE checksum_terms(_, _, _, _)
checksum_terms(packet, offset, lo, hi) ==
    IF lo > hi THEN U32(0)
    ELSE IF lo = hi THEN U32(packet[lo + offset + 1] * (lo + 1))
    ELSE LET mid == (lo + hi) \div 2
         IN  WAdd(checksum_terms(packet, offset, lo, mid),
                  checksum_terms(packet, offset, mid + 1, hi))

\* net_checksum over the four bytes after the checksum field only
net_checksum_header_only(packet, offset) ==
    WAdd(U32(CHECKSUM_SEED), checksum_terms(packet, offset, 0, 3))

net_checksum(packet, offset) ==
    LET length == Len(packet) - offset
    IN  WAdd(U32(CHECKSUM_SEED), checksum_terms(packet, offset, 0, length - 1))

(***************************************************************************)
(* _unpack: a format is a sequence of fields [n, c, name]; n = -1 is "*"   *)
(***************************************************************************)
Field(n, c, name) == [n |-> n, c |-> c, name |-> name]

\* struct.calcsize of one item code
ItemSize(c) == CASE c = "B" -> 1 [] c = "s" -> 1 [] c = "H" -> 2 [] c = "I" -> 4

RECURSIVE unpack_loop(_, _, _, _, _)
unpack_loop(format, packet, n, k, output) ==
    IF k > Len(format) THEN Ok([output |-> output, rest |-> Slice(packet, n, Len(packet))])
    ELSE
      LET f     == format[k]
          count == IF f.n = -1 THEN Len(packet) - n ELSE f.n
          size  == count * ItemSize(f.c)
          data  == CASE f.c = "s" -> Slice(packet, n, n + count)
                     [] f.c = "B" -> IF count > 1 THEN Slice(packet, n, n + count)
                                     ELSE packet[n + 1]
                     [] f.c = "H" -> int_from_bytes(Slice(packet, n, n + 2))[2]
                     [] f.c = "I" -> int_from_bytes(Slice(packet, n, n + 4))
      IN  IF count < 0 \/ Len(packet) - n < size
          THEN Raise("struct.error", <<>>)
          ELSE unpack_loop(format, packet, n + size, k + 1, (f.name :> data) @@ output)

_unpack(format, packet) == unpack_loop(format, packet, 0, 1, <<>>)

(***************************************************************************)
(* cstrlen / cstr                                                          *)
(***************************************************************************)
cstrlen(s, offset, n) ==
    LET length == Len(s) - offset
        cut    == n # NoInt /\ n < length
        s2     == IF cut THEN Slice(s, offset, offset + n) ELSE s
        off2   == IF cut THEN 0 ELSE offset
        len2   == IF cut THEN n ELSE length
        z      == find_null(s2, off2)
    IN  IF length < 0 THEN 0
        ELSE IF z = -1 THEN len2 ELSE z - off2 + 1

\* bytes.decode("utf-8", "backslashreplace") of sanitized bytes lo..hi
\* (1-based): what is left after the sanitizer is a null, ASCII 0x1A..0x7E,
\* or a lone continuation byte 0x80..0x8F, which is no valid UTF-8 and
\* comes out as the four characters \x8N.
RECURSIVE decode_backslashreplace(_, _, _)
decode_backslashreplace(b, lo, hi) ==
    IF lo > hi THEN <<>>
    ELSE IF lo = hi
         THEN IF b[lo] >= 128 THEN <<92, 120, HexDigit(b[lo] \div 16), HexDigit(b[lo] % 16)>>
              ELSE <<b[lo]>>
    ELSE LET mid == (lo + hi) \div 2
         IN  decode_backslashreplace(b, lo, mid) \o decode_backslashreplace(b, mid + 1, hi)

cstr(s, offset, n) ==
    LET n1    == cstrlen(s, offset, n)
        \* "Check that we haven't been truncated."
        n2    == IF s[offset + (n1 - 1) + 1] = 0 THEN n1 - 1 ELSE n1
        new_s == [i \in 1..Len(s) |->
                    IF s[i] = 127 \/ s[i] <= 25 \/ s[i] >= 144 THEN 0 ELSE s[i]]
        text  == decode_backslashreplace(new_s, offset + 1, offset + n2)
    IN  SelectSeq(text, LAMBDA c : c # 0)

(***************************************************************************)
(* Packets.  A packet is a record with its class in cls.                   *)
(***************************************************************************)
\* AskPacket.__init__: the time argument is ignored, time is always 0
AskPacket(version, time) == [cls |-> "AskPacket", version |-> version, time |-> 0]

packet_type(p) ==
    CASE p.cls = "AskPacket" -> ASKINFO
      [] p.cls = "ServerInfoPacket" -> SERVERINFO
      [] p.cls = "PlayerInfoPacket" -> PLAYERINFO

\* struct.pack("BI", version, time): native alignment puts three pad bytes
\* between the B and the I
AskPacket_pack_inner(p) == Ok(<<p.version, 0, 0, 0>> \o struct_pack_I(U32(p.time)))

pack_inner(p) ==
    CASE p.cls = "AskPacket" -> AskPacket_pack_inner(p)
      [] p.cls = "ServerInfoPacket" -> Raise("NotImplementedError", <<>>)
      [] p.cls = "PlayerInfoPacket" -> Raise("NotImplementedError", <<>>)

Packet_pack(p) ==
    LET inner == pack_inner(p)
    IN  IF ~inner.ok THEN inner
        ELSE LET buf      == <<0, 0, packet_type(p), 0>> \o inner.val
                 checksum == net_checksum(buf, 0)
             IN  IF checksum[1] >= 65536 THEN Raise("struct.error", <<>>)
                 ELSE Ok(struct_pack_I(checksum) \o buf)

ServerInfoPacket_format ==
    << Field(1, "B", "_255"), Field(1, "B", "packetversion"),
       Field(16, "s", "application"), Field(1, "B", "version"),
       Field(1, "B", "subversion"), Field(4, "B", "commit"),
       Field(1, "B", "numberofplayer"), Field(1, "B", "maxplayer"),
       Field(1, "B", "refusereason"), Field(24, "s", "gametypename"),
       Field(1, "B", "modifiedgame"), Field(1, "B", "cheatsenabled"),
       Field(1, "B", "kartvars"), Field(1, "B", "fileneedednum"),
       Field(1, "I", "time"), Field(1, "I", "leveltime"),
       Field(32, "s", "servername"), Field(33, "s", "maptitle"),
       Field(16, "s", "mapmd5"), Field(1, "B", "actnum"),
       Field(1, "B", "iszone"), Field(256, "s", "httpsource"),
       Field(1, "H", "avgpwrlv"), Field(-1, "s", "fileneeded") >>

ServerInfoPacket_unpack_inner(packet) ==
    LET r == _unpack(ServerInfoPacket_format, packet)
    IN  IF ~r.ok THEN r
        ELSE
          LET unpacked == r.val.output
              commit   == format_2x(unpacked["commit"][1]) \o format_2x(unpacked["commit"][2])
                          \o format_2x(unpacked["commit"][3]) \o format_2x(unpacked["commit"][4])
              kartvars == unpacked["kartvars"]
              speed    == BitAnd(kartvars, 3)
              flags    == BitAnd(kartvars, ServerFlags_all)
          IN  IF speed \notin GameSpeed THEN Raise("ValueError", <<speed>>)
              ELSE IF unpacked["refusereason"] \notin RefuseReason
                   THEN Raise("ValueError", <<unpacked["refusereason"]>>)
              ELSE Ok([cls |-> "ServerInfoPacket",
                       info |-> [application       |-> cstr(unpacked["application"], 0, NoInt),
                                 version           |-> unpacked["version"],
                                 subversion        |-> unpacked["subversion"],
                                 commit            |-> commit,
                                 gametype_name     |-> cstr(unpacked["gametypename"], 0, NoInt),
                                 server_name       |-> cstr(unpacked["servername"], 0, NoInt),
                                 number_of_players |-> unpacked["numberofplayer"],
                                 max_players       |-> unpacked["maxplayer"],
                                 modified_game     |-> unpacked["modifiedgame"] # 0,
                                 cheats_enabled    |-> unpacked["cheatsenabled"] # 0,
                                 avg_mobiums       |-> unpacked["avgpwrlv"],
                                 game_speed        |-> speed,
                                 flags             |-> flags,
                                 refuse_reason     |-> unpacked["refusereason"],
                                 time              |-> unpacked["time"],
                                 level_time        |-> unpacked["leveltime"],
                                 map_title         |-> cstr(unpacked["maptitle"], 0, NoInt),
                                 map_md5           |-> bytes_hex(unpacked["mapmd5"]),
                                 actnum            |-> unpacked["actnum"],
                                 is_zone           |-> unpacked["iszone"] # 0,
                                 number_of_files   |-> unpacked["fileneedednum"],
                                 http_source       |-> cstr(unpacked["httpsource"], 0, NoInt)]])

PlayerInfoPacket_format ==
    << Field(1, "B", "num"), Field(22, "s", "name"), Field(4, "s", "address"),
       Field(1, "B", "team"), Field(1, "B", "skin"), Field(1, "B", "data"),
       Field(1, "I", "score"), Field(1, "H", "timeinserver") >>

\* the loop "for i in range(MAX_PLAYERS)" from iteration i on
RECURSIVE PlayerInfoPacket_unpack_loop(_, _, _)
PlayerInfoPacket_unpack_loop(i, packet, players) ==
    IF i >= MAX_PLAYERS THEN Ok([cls |-> "PlayerInfoPacket", players |-> players])
    ELSE LET r == _unpack(PlayerInfoPacket_format, packet)
         IN  IF ~r.ok THEN r
             ELSE LET unpacked == r.val.output
                      player   == [num            |-> unpacked["num"],
                                   name           |-> cstr(unpacked["name"], 0, NoInt),
                                   team           |-> unpacked["team"],
                                   score          |-> unpacked["score"],
                                   time_in_server |-> unpacked["timeinserver"]]
                  IN  PlayerInfoPacket_unpack_loop(i + 1, r.val.rest, Append(players, player))

PlayerInfoPacket_unpack_inner(packet) == PlayerInfoPacket_unpack_loop(0, packet, <<>>)

\* is_empty that takes no slot for empty
is_empty_never(player) == FALSE

\* PlayerInfo.is_empty
is_empty(player) == player.num = 255

unpack_inner(cls, packet) ==
    CASE cls = "AskPacket" -> Raise("NotImplementedError", <<>>)
      [] cls = "ServerInfoPacket" -> ServerInfoPacket_unpack_inner(packet)
      [] cls = "PlayerInfoPacket" -> PlayerInfoPacket_unpack_inner(packet)

\* Packet_unpack without the length check of lines 299-300: of a buffer
\* without a whole header the checksum field cannot match
Packet_unpack_unchecked_length(packet) ==
    IF Len(packet) < 8 THEN Raise("BadChecksumError", <<0>>)
    ELSE
      LET checksum == int_from_bytes(Slice(packet, 0, 4))
      IN  IF ~(checksum = net_checksum(packet, 4))
          THEN Raise("BadChecksumError", <<checksum>>)
          ELSE
            LET packet_kind == packet[7]
            IN  IF packet_kind \notin PacketType
                THEN Raise("PacketTypeError", <<packet_kind>>)
                ELSE IF packet_kind \notin DOMAIN packet_types
                THEN Raise("NotImplementedError", <<>>)
                ELSE unpack_inner(packet_types[packet_kind], Slice(packet, 8, Len(packet)))

\* Packet_unpack that looks at the type tag before the checksum
Packet_unpack_tag_first(packet) ==
    IF Len(packet) < 8 THEN Raise("MissingHeaderError", <<>>)
    ELSE
      LET checksum    == int_from_bytes(Slice(packet, 0, 4))
          packet_kind == packet[7]
      IN  IF packet_kind \notin PacketType
          THEN Raise("PacketTypeError", <<packet_kind>>)
          ELSE IF ~(checksum = net_checksum(packet, 4))
          THEN Raise("BadChecksumError", <<checksum>>)
          ELSE IF packet_kind \notin DOMAIN packet_types
          THEN Raise("NotImplementedError", <<>>)
          ELSE LET r == unpack_inner(packet_types[packet_kind], Slice(packet, 8, Len(packet)))
               IN  IF ~r.ok THEN r
                   ELSE Ok([checksum |-> checksum] @@ r.val)

\* Packet.unpack, lines 291-327
Packet_unpack(packet) ==
    IF Len(packet) < 8 THEN Raise("MissingHeaderError", <<>>)
    ELSE
      LET header   == Slice(packet, 0, 8)
          checksum == int_from_bytes(Slice(header, 0, 4))
      IN  IF ~(checksum = net_checksum(packet, 4))
          THEN Raise("BadChecksumError", <<checksum>>)
          ELSE
            LET packet_kind == packet[7]
            IN  IF packet_kind \notin PacketType
                THEN Raise("PacketTypeError", <<packet_kind>>)
                ELSE IF packet_kind \notin DOMAIN packet_types
                THEN Raise("NotImplementedError", <<>>)
                ELSE LET r == unpack_inner(packet_types[packet_kind], Slice(packet, 8, Len(packet)))
                     IN  IF ~r.ok THEN r
                         ELSE Ok([checksum |-> checksum] @@ r.val)

(***************************************************************************)
(* The remote game server's side of the wire: how the datagrams it sends   *)
(* are laid out.  These build the inputs of the model; the server itself   *)
(* is no part of this repository.                                          *)
(***************************************************************************)
\* a string in a fixed slot, null padded
Slot(bytes, width) == bytes \o Zeros(width - Len(bytes))

\* the game computes its checksum in an unsigned 32-bit integer
Wrap32(v) == <<v[1] % 65536, v[2]>>

\* header (checksum, two ack bytes, type tag, one reserved byte) + payload
Frame(tag, payload) ==
    LET buf == <<0, 0, tag, 0>> \o payload
    IN  struct_pack_I(Wrap32(net_checksum(buf, 0))) \o buf

\* a server-info payload; w gives the fields the model varies
ServerInfoPayload(w) ==
    <<255, 1>> \o Slot(<<82, 82>>, 16) \o <<2, 3>> \o <<10, 255, 0, 18>>
    \o <<w.numberofplayer, 16, w.refusereason>> \o Slot(<<82, 97, 99, 101>>, 24)
    \o <<0, 1, w.kartvars, 0>> \o struct_pack_I(U32(70)) \o struct_pack_I(U32(35))
    \o Slot(w.servername, 32) \o Slot(<<77, 97, 112>>, 33) \o [i \in 1..16 |-> 16 * i - 1]
    \o <<2, 1>> \o Slot(<<104, 116, 116, 112>>, 256) \o struct_pack_H(1500)
    \o w.fileneeded

\* one 36-byte player slot
PlayerSlot(num) ==
    <<num>> \o Slot(<<80, 48 + (num % 10)>>, 22) \o Zeros(4) \o <<0, 255, 0>>
    \o struct_pack_I(U32(num * 3)) \o struct_pack_H(60)

\* a player-info payload whose first n slots hold players first..first+n-1
\* and whose other slots are empty (num = 255)
RECURSIVE PlayerSlots(_, _, _)
PlayerSlots(i, n, first) ==
    IF i >= MAX_PLAYERS THEN <<>>
    ELSE PlayerSlot(IF i < n THEN first + i ELSE 255) \o PlayerSlots(i + 1, n, first)

PlayerInfoPayload(n, first) == PlayerSlots(0, n, first)

(***************************************************************************)
(* The datagrams of the model.  A datagram is named <<kind, n>>; Wire      *)
(* gives its bytes and Decoded what Packet.unpack makes of them.           *)
(***************************************************************************)
WireFields(n, kartvars, refusereason) ==
    [numberofplayer |-> n, kartvars |-> kartvars, refusereason |-> refusereason,
     servername |-> <<130, 71, 80, 7>>, fileneeded |-> <<>>]

\* a byte of the buffer replaced
SetByte(b, i, v) == [b EXCEPT ![i] = v]

Wire(d) ==
    CASE d[1] = "SI"       -> Frame(SERVERINFO, ServerInfoPayload(WireFields(d[2], 65, 0)))
      [] d[1] = "PI"       -> Frame(PLAYERINFO, PlayerInfoPayload(d[2], 0))
      [] d[1] = "short"    -> SubSeq(Frame(SERVERINFO, <<>>), 1, d[2])
      [] d[1] = "badsum"   -> LET b == Frame(PLAYERINFO, PlayerInfoPayload(d[2], 0))
                              IN  SetByte(b, 9, (b[9] + 1) % 256)
      [] d[1] = "tag"      -> Frame(d[2], <<RINGRACERS_VERSION, 0, 0, 0, 0>>)
      [] d[1] = "trunc"    -> Frame(SERVERINFO,
                                    SubSeq(ServerInfoPayload(WireFields(1, 65, 0)), 1, d[2]))
      [] d[1] = "truncpi"  -> Frame(PLAYERINFO, SubSeq(PlayerInfoPayload(1, 0), 1, d[2]))
      [] d[1] = "kartvars" -> Frame(SERVERINFO, ServerInfoPayload(WireFields(1, d[2], 0)))
      [] d[1] = "refuse"   -> Frame(SERVERINFO, ServerInfoPayload(WireFields(1, 65, d[2])))
      [] d[1] = "big"      -> Frame(SERVERINFO,
                                    ServerInfoPayload([WireFields(1, 65, 0) EXCEPT
                                        !.fileneeded = [i \in 1..d[2] |-> 255]]))

\* bytes of needed-files data in a large server-info datagram: enough for
\* the weighted byte sum to pass 2^32
BigFiles == 5600

DatagramIds ==
    {<<"SI", n>> : n \in 0..MAX_PLAYERS} \cup {<<"PI", n>> : n \in 0..MAX_PLAYERS}
    \cup {<<"short", n>> : n \in {0, 7}}
    \cup {<<"badsum", 1>>}
    \cup {<<"tag", n>> : n \in {ASKINFO, TELLFILESNEEDED, MOREFILESNEEDED, 99}}
    \cup {<<"trunc", n>> : n \in {0, 100, 403}}
    \cup {<<"truncpi", n>> : n \in {575}}
    \cup {<<"kartvars", n>> : n \in {3, 226}}
    \cup {<<"refuse", n>> : n \in {2, 3}}
    \cup {<<"big", BigFiles>>}

Decoded == [d \in DatagramIds |-> Packet_unpack(Wire(d))]

(***************************************************************************)
(* State                                                                   *)
(***************************************************************************)
VARIABLES
    db,                 \* storage: the rows of table "server", in insertion order
    servers,            \* ServerWatcher.servers: dict id -> object, a sequence
                        \* of [id, obj] in the dict's (insertion) order
    servers_by_guild,   \* ServerWatcher.servers_by_guild: guild id -> list of objects
    heap,               \* the WatchedServer objects ever constructed: obj -> fields
    poll,               \* the knock_servers task of App
    frame,              \* task -> the frame of the knock it awaits
    waiters,            \* consumer tasks awaiting some server's update_event;
                        \* since is the count of signals when the wait began
    net,                \* environment: remote -> the datagrams it may send
                        \* (may) and how many of them a knock gets (count)
    codec,              \* the codec under test: a buffer or packet and the result
    api,                \* the last call of add / remove / load / iter on the
                        \* ServerWatcher and its outcome; removed is the set
                        \* of objects whose remove has completed
    cmd                 \* the task of a /servers command (add or list)

vars == <<db, servers, servers_by_guild, heap, poll, frame, waiters, net, codec, api,
         cmd>>

\* defaults of Server.__init__ (tries) and Server._get_info (timeout, seconds)
DEFAULT_TRIES == 5
DEFAULT_TIMEOUT == 5
\* "if len(self.pings) > 5" in Server._ask
PINGS_LIMIT == 5

\* bounds of the model
MaxCycles == 2          \* poll cycles started
MaxDatagrams == 5       \* datagrams one knock receives, one server tracked
MaxReplies == 2         \* datagrams one knock receives, two servers tracked
MaxDelay == 1           \* clock ticks (seconds) a datagram takes to arrive
MaxEdits == 1           \* bytes damaged in a buffer handed to the codec
MaxOffset == 12         \* the damage hits the first MaxOffset bytes or the last
MaxKeep == 9            \* a cut buffer keeps at most MaxKeep bytes, or all but one

Tasks == {"poll", "cmd"}
Waiters == {"w1"}

(***************************************************************************)
(* WatchedServer                                                           *)
(***************************************************************************)
\* the remotes of the scenarios; a remote is named by its text, and Text
\* gives the characters Server.__init__ parses
RemoteA == "10.0.0.1:5029"
RemoteB == "10.0.0.2:5029"
RemoteHostOnly == "10.0.0.3"

Digit == ("0" :> 0) @@ ("1" :> 1) @@ ("2" :> 2) @@ ("3" :> 3) @@ ("4" :> 4) @@
         ("5" :> 5) @@ ("6" :> 6) @@ ("7" :> 7) @@ ("8" :> 8) @@ ("9" :> 9)

Text ==
    (RemoteA :> <<"1", "0", ".", "0", ".", "0", ".", "1", ":", "5", "0", "2", "9">>) @@
    (RemoteB :> <<"1", "0", ".", "0", ".", "0", ".", "2", ":", "5", "0", "2", "9">>) @@
    (RemoteHostOnly :> <<"1", "0", ".", "0", ".", "0", ".", "3">>)

\* str.rpartition(sep): the text before the last sep, sep, the text after
\* it; ('', '', s) when s holds no sep
rpartition(s, sep) ==
    LET at == {i \in 1..Len(s) : s[i] = sep}
    IN  IF at = {} THEN <<<<>>, <<>>, s>>
        ELSE LET i == CHOOSE j \in at : \A k \in at : k <= j
             IN  <<SubSeq(s, 1, i - 1), <<sep>>, SubSeq(s, i + 1, Len(s))>>

\* int(s) of a decimal text
RECURSIVE decimal(_)
decimal(s) == IF s = <<>> THEN 0 ELSE 10 * decimal(SubSeq(s, 1, Len(s) - 1)) + Digit[s[Len(s)]]

int(s) ==
    IF s = <<>> \/ \E i \in 1..Len(s) : s[i] \notin DOMAIN Digit
    THEN Raise("ValueError", <<>>)
    ELSE Ok(decimal(s))

\* ipaddress.ip_address(s), IPv4: four decimal octets between dots
RECURSIVE split(_, _)
split(s, sep) ==
    LET parts == rpartition(s, sep)
    IN  IF parts[2] = <<>> THEN <<s>> ELSE Append(split(parts[1], sep), parts[3])

ip_address(s) ==
    LET octets == split(s, ".")
    IN  IF /\ Len(octets) = 4
           /\ \A i \in 1..4 : /\ Len(octets[i]) \in 1..3
                               /\ int(octets[i]).ok
                               /\ int(octets[i]).val <= 255
        THEN Ok([i \in 1..4 |-> int(octets[i]).val])
        ELSE Raise("ValueError", <<>>)

\* Server.__init__, lines 40-46: the remote's address and port
Server_init(remote) ==
    LET parts == rpartition(Text[remote], ":")
        ip    == ip_address(parts[1])
        port  == int(parts[3])
    IN  IF parts[2] = <<>> THEN Raise("AssertionError", <<>>)
        ELSE IF ~ip.ok THEN ip
        ELSE IF ~port.ok THEN port
        ELSE Ok([remote |-> ip.val, remote_port |-> port.val])

\* WatchedServer.__init__ over Server.__init__, where that returns; remote
\* keeps the text (the key of net) and signals counts the calls of
\* update_event.set()
WatchedServer(row) ==
    [id |-> row.id, discord_guild_id |-> row.discord_guild_id, remote |-> row.remote,
     remote_port |-> Server_init(row.remote).val.remote_port,
     tries |-> DEFAULT_TRIES, info |-> None, players |-> <<>>, pings |-> <<>>,
     last_updated |-> None, update_event |-> FALSE, signals |-> 0]

\* ServerWatcher._append, on the pair (servers, servers_by_guild); obj is
\* the new object's place in the heap
IndexOfId(dict, id) == {i \in 1..Len(dict) : dict[i].id = id}

_append(dict, by_guild, obj, server) ==
    [servers |->
        IF IndexOfId(dict, server.id) # {}
        THEN [i \in 1..Len(dict) |->
                 IF dict[i].id = server.id THEN [id |-> server.id, obj |-> obj] ELSE dict[i]]
        ELSE Append(dict, [id |-> server.id, obj |-> obj]),
     servers_by_guild |->
        IF server.discord_guild_id \in DOMAIN by_guild
        THEN [by_guild EXCEPT ![server.discord_guild_id] = Append(@, obj)]
        ELSE (server.discord_guild_id :> <<obj>>) @@ by_guild]

\* ServerWatcher.load: one WatchedServer per row, appended in row order;
\* a row whose WatchedServer cannot be constructed ends the load
RECURSIVE load_loop(_, _, _)
load_loop(rows, k, st) ==
    IF k > Len(rows) THEN st
    ELSE IF ~Server_init(rows[k].remote).ok
    THEN [st EXCEPT !.exc = Server_init(rows[k].remote).exc]
    ELSE LET server == WatchedServer(rows[k])
             obj    == Len(st.heap) + 1
             idx    == _append(st.servers, st.servers_by_guild, obj, server)
         IN  load_loop(rows, k + 1,
                       [heap |-> Append(st.heap, server), servers |-> idx.servers,
                        servers_by_guild |-> idx.servers_by_guild, exc |-> ""])

(***************************************************************************)
(* Server._get_info: the frame of one knock                                *)
(***************************************************************************)
IdleFrame ==
    [pc |-> "none", obj |-> 0, info |-> None, players |-> <<>>, last_sent |-> NoInt,
     tries |-> 0, remaining |-> 0, elapsed |-> 0, asking |-> FALSE, exc |-> "",
     asks |-> 0, got |-> <<>>, socket |-> "none"]

\* lines 162-165: the loop is over
get_info_end(f) ==
    IF f.info = None \/ Len(f.players) < f.info[1].number_of_players
    THEN [f EXCEPT !.pc = "raised", !.exc = "ConnectError"]
    ELSE [f EXCEPT !.pc = "returned"]

\* get_info_loop with "break" where the code counts the attempt and goes on
get_info_loop_break(f, self_tries) ==
    IF ~(f.tries < self_tries) THEN get_info_end(f)
    ELSE IF f.remaining <= 0 THEN get_info_end(f)
    ELSE IF f.last_sent = NoInt \/ f.last_sent < f.tries
         THEN [f EXCEPT !.pc = "recv", !.last_sent = f.tries, !.asking = TRUE,
                        !.asks = @ + 1]
         ELSE [f EXCEPT !.pc = "recv", !.asking = FALSE]

\* get_info_loop that sends an ask before every wait
RECURSIVE get_info_loop_always_asks(_, _)
get_info_loop_always_asks(f, self_tries) ==
    IF ~(f.tries < self_tries) THEN get_info_end(f)
    ELSE IF f.remaining <= 0
         THEN get_info_loop_always_asks([f EXCEPT !.tries = @ + 1], self_tries)
    ELSE [f EXCEPT !.pc = "recv", !.last_sent = f.tries, !.asking = TRUE,
                   !.asks = @ + 1]

\* get_info_loop without the test of timeout_at
get_info_loop_no_deadline(f, self_tries) ==
    IF ~(f.tries < self_tries) THEN get_info_end(f)
    ELSE IF f.last_sent = NoInt \/ f.last_sent < f.tries
         THEN [f EXCEPT !.pc = "recv", !.last_sent = f.tries, !.asking = TRUE,
                        !.asks = @ + 1]
         ELSE [f EXCEPT !.pc = "recv", !.asking = FALSE]

\* lines 129-143: from the loop's head to the next await (pc = "recv") or
\* to the loop's end; remaining is timeout_at - now
RECURSIVE get_info_loop(_, _)
get_info_loop(f, self_tries) ==
    IF ~(f.tries < self_tries) THEN get_info_end(f)
    ELSE IF f.remaining <= 0
         THEN get_info_loop([f EXCEPT !.tries = @ + 1], self_tries)
    ELSE IF f.last_sent = NoInt \/ f.last_sent < f.tries
         THEN [f EXCEPT !.pc = "recv", !.last_sent = f.tries, !.asking = TRUE,
                        !.asks = @ + 1]
         ELSE [f EXCEPT !.pc = "recv", !.asking = FALSE]

\* extend_non_empty without the is_empty filter
extend_all(players, more) == players \o more

\* "players.extend(p for p in res.players if not p.is_empty)"
extend_non_empty(players, more) == players \o SelectSeq(more, LAMBDA p : ~is_empty(p))

\* get_info_packet with the PacketError handler missing: the decode error
\* leaves the knock
get_info_packet_uncaught(f, res, self_tries) ==
    IF res.ok /\ res.val.cls = "ServerInfoPacket"
    THEN get_info_loop([f EXCEPT !.info = Some(res.val.info)], self_tries)
    ELSE IF res.ok /\ res.val.cls = "PlayerInfoPacket"
    THEN LET players == extend_non_empty(f.players, res.val.players)
             f1      == [f EXCEPT !.players = players]
         IN  IF f.info # None /\ Len(players) >= f.info[1].number_of_players
             THEN get_info_end(f1)
             ELSE get_info_loop(f1, self_tries)
    ELSE [f EXCEPT !.pc = "raised", !.exc = res.exc]

\* lines 148-160: a buffer has been received and res is what Packet.unpack
\* made of it; then on to the next await or to the end
get_info_packet(f, res, self_tries) ==
    IF res.ok /\ res.val.cls = "ServerInfoPacket"
    THEN get_info_loop([f EXCEPT !.info = Some(res.val.info)], self_tries)
    ELSE IF res.ok /\ res.val.cls = "PlayerInfoPacket"
    THEN LET players == extend_non_empty(f.players, res.val.players)
             f1      == [f EXCEPT !.players = players]
         IN  IF f.info # None /\ Len(players) >= f.info[1].number_of_players
             THEN get_info_end(f1)          \* "Escape early"
             ELSE get_info_loop(f1, self_tries)
    ELSE IF ~res.ok /\ res.exc \in PacketError
    THEN get_info_loop([f EXCEPT !.tries = @ + 1], self_tries)
    ELSE [f EXCEPT !.pc = "raised", !.exc = res.exc]

\* get_info_timeout that waits anew and counts nothing
get_info_timeout_waits_anew(f, self_tries) ==
    [f EXCEPT !.pc = "recv", !.remaining = DEFAULT_TIMEOUT, !.elapsed = 0]

\* lines 144-146: the wait for a buffer timed out
get_info_timeout(f, self_tries) ==
    get_info_loop([f EXCEPT !.tries = @ + 1], self_tries)

\* sum(pings)
RECURSIVE sum(_)
sum(pings) == IF pings = <<>> THEN 0 ELSE Head(pings) + sum(Tail(pings))

\* Server.ping, lines 80-82: sum(self.pings) / len(self.pings), as the
\* fraction <<numerator, denominator>>; ZeroDivisionError of an empty window
ping(server) ==
    IF Len(server.pings) = 0 THEN Raise("ZeroDivisionError", <<>>)
    ELSE Ok(<<sum(server.pings), Len(server.pings)>>)

\* Server._ask, lines 110-114: the reply is in, the sample is recorded
ask_record(pings, sample) ==
    Append(IF Len(pings) > PINGS_LIMIT THEN Tail(pings) ELSE pings, sample)

(***************************************************************************)
(* Server.knock / WatchedServer.knock: what the end of _get_info does to   *)
(* the object                                                              *)
(***************************************************************************)
\* Server_knock_end storing what was gathered whether or not _get_info returned
Server_knock_end_always(server, f) ==
    [server EXCEPT !.info = f.info, !.players = f.players]

\* Server.knock, lines 92-98: the socket is released; info and players
\* are assigned when _get_info returned
Server_knock_end(server, f) ==
    IF f.pc = "returned"
    THEN [server EXCEPT !.info = f.info, !.players = f.players]
    ELSE server

\* WatchedServer_knock_end without the clear() of line 63
WatchedServer_knock_end_no_clear(server, f) ==
    LET s1 == Server_knock_end(server, f)
    IN  IF f.pc = "returned"
        THEN [s1 EXCEPT !.last_updated = Some(server.signals + 1),
                        !.update_event = TRUE,
                        !.signals = @ + 1]
        ELSE s1

\* WatchedServer_knock_end that signals before the result is stored
WatchedServer_knock_end_signal_first(server, f) ==
    IF f.pc = "returned"
    THEN [server EXCEPT !.update_event = FALSE, !.signals = @ + 1]
    ELSE server

\* WatchedServer.knock, lines 58-65: last_updated, then set() and clear();
\* nothing of it runs when super().knock() raised
WatchedServer_knock_end(server, f) ==
    LET s1 == Server_knock_end(server, f)
    IN  IF f.pc = "returned"
        THEN [s1 EXCEPT !.last_updated = Some(server.signals + 1),
                        !.update_event = FALSE,
                        !.signals = @ + 1]
        ELSE s1

\* update_event.set(): every task waiting on the event is released
event_set(ws, obj) ==
    [w \in DOMAIN ws |->
        IF ws[w].pc = "waiting" /\ ws[w].obj = obj THEN [ws[w] EXCEPT !.pc = "woken"]
        ELSE ws[w]]

\* KnockStep that releases the socket only where _get_info returned
KnockStep_release_on_return(t, f, server) ==
    LET done == f.pc \in {"returned", "raised"}
        f1   == IF f.pc = "returned" THEN [f EXCEPT !.socket = "closed"] ELSE f
    IN  /\ frame' = [frame EXCEPT ![t] = f1]
        /\ heap' = [heap EXCEPT ![f.obj] =
                        IF done THEN WatchedServer_knock_end(server, f) ELSE server]
        /\ waiters' = IF f.pc = "returned" THEN event_set(waiters, f.obj) ELSE waiters

\* the frame and the world after a step of the knock of task t: f is the
\* frame the step ends with and server the object as _ask left it.  A knock
\* that ends runs to the end of WatchedServer.knock in the same step: there
\* is no await between the last receive and the return to the caller; the
\* "async with" of Server.knock releases the socket however the block ends
KnockStep(t, f, server) ==
    LET done == f.pc \in {"returned", "raised"}
        f1   == IF done THEN [f EXCEPT !.socket = "closed"] ELSE f
    IN  /\ frame' = [frame EXCEPT ![t] = f1]
        /\ heap' = [heap EXCEPT ![f.obj] =
                        IF done THEN WatchedServer_knock_end(server, f) ELSE server]
        /\ waiters' = IF f.pc = "returned" THEN event_set(waiters, f.obj) ELSE waiters

\* "async with await asyncudp.create_socket(...)": the socket is open and
\* _get_info runs to its first await
CreateSocket(t) ==
    /\ frame[t].pc = "create_socket"
    /\ LET server == heap[frame[t].obj]
           f0     == [frame[t] EXCEPT !.socket = "open", !.remaining = DEFAULT_TIMEOUT]
       IN  KnockStep(t, get_info_loop(f0, server.tries), server)
    /\ UNCHANGED <<db, servers, servers_by_guild, poll, net, codec, api, cmd>>

\* received_by that records a sample for every buffer
received_by_sampling_all(server, asking, dt) ==
    [server EXCEPT !.pings = ask_record(@, dt)]

\* lines 137-143: the buffer came from "await self._ask(socket, timeout)",
\* which records the round trip, or from the bare recvfrom of a ride
received_by(server, asking, dt) ==
    IF asking THEN [server EXCEPT !.pings = ask_record(@, dt)] ELSE server

\* a datagram d arrives dt ticks into the wait of task t: wait_for returns
\* the buffer, _ask records its sample, the loop decodes and goes on
Receive(t, d, dt) ==
    /\ frame[t].pc = "recv"
    /\ dt < frame[t].remaining
    /\ d \in net[heap[frame[t].obj].remote].may
    /\ LET f      == frame[t]
           f0     == [f EXCEPT !.remaining = @ - dt, !.elapsed = @ + dt,
                               !.got = Append(@, d)]
           server == received_by(heap[f.obj], f.asking, dt)
       IN  KnockStep(t, get_info_packet(f0, Decoded[d], server.tries), server)
    /\ UNCHANGED <<db, servers, servers_by_guild, poll, net, codec, api, cmd>>

\* a datagram d of the remote arrives dt ticks into the wait; the remote
\* sends count datagrams in all
RecvDatagram(t, d, dt) ==
    /\ frame[t].pc = "recv"
    /\ Len(frame[t].got) < net[heap[frame[t].obj].remote].count
    /\ Receive(t, d, dt)

\* a datagram d of a remote that never stops sending: count datagrams may
\* arrive with no time between them, any further one takes a tick or more
RecvStream(t, d, dt) ==
    /\ frame[t].pc = "recv"
    /\ Len(frame[t].got) < net[heap[frame[t].obj].remote].count \/ dt >= 1
    /\ Receive(t, d, dt)

\* asyncio.wait_for gives up: the wait has lasted the whole "timeout", which
\* is the time that was left to timeout_at
RecvTimeout(t) ==
    /\ frame[t].pc = "recv"
    /\ LET f  == frame[t]
           f0 == [f EXCEPT !.remaining = 0, !.elapsed = @ + f.remaining]
       IN  KnockStep(t, get_info_timeout(f0, heap[f.obj].tries), heap[f.obj])
    /\ UNCHANGED <<db, servers, servers_by_guild, poll, net, codec, api, cmd>>

(***************************************************************************)
(* App: setup_hook and the knock_servers loop                              *)
(***************************************************************************)
\* setup_hook, lines 167-168: load, then start the loop
Load ==
    /\ poll.pc = "setup"
    /\ LET st == load_loop(db, 1, [heap |-> heap, servers |-> servers,
                                   servers_by_guild |-> servers_by_guild,
                                   exc |-> ""])
       IN  /\ heap' = st.heap
           /\ servers' = st.servers
           /\ servers_by_guild' = st.servers_by_guild
           /\ poll' = IF st.exc = "" THEN [poll EXCEPT !.pc = "ready"]
                      ELSE [poll EXCEPT !.pc = "stopped", !.exc = st.exc]
    /\ UNCHANGED <<db, frame, waiters, net, codec, api, cmd>>

\* "for server in self.watcher.iter(): await server.knock()": the next
\* round of the loop.  The dict iterator of iter() raises RuntimeError when
\* the dict's size is no longer what it was; at the end the task sleeps
\* until the next period.
PollAdvance_over_heap(pl) ==
    IF pl.pos < Len(heap)
    THEN /\ poll' = [pl EXCEPT !.pc = "knock", !.pos = @ + 1,
                              !.knocked = Append(@, pl.pos + 1)]
         /\ frame' = [frame EXCEPT !["poll"] =
                         [IdleFrame EXCEPT !.pc = "create_socket", !.obj = pl.pos + 1]]
    ELSE /\ poll' = [pl EXCEPT !.pc = "sleep"]
         /\ frame' = [frame EXCEPT !["poll"] = IdleFrame]

PollAdvance(pl) ==
    IF Len(servers) # pl.size
    THEN /\ poll' = [pl EXCEPT !.pc = "stopped", !.exc = "RuntimeError"]
         /\ frame' = [frame EXCEPT !["poll"] = IdleFrame]
    ELSE IF pl.pos < Len(servers)
    THEN LET obj == servers[pl.pos + 1].obj
         IN  /\ poll' = [pl EXCEPT !.pc = "knock", !.pos = @ + 1,
                                   !.knocked = Append(@, obj)]
             /\ frame' = [frame EXCEPT !["poll"] =
                             [IdleFrame EXCEPT !.pc = "create_socket", !.obj = obj]]
    ELSE /\ poll' = [pl EXCEPT !.pc = "sleep"]
         /\ frame' = [frame EXCEPT !["poll"] = IdleFrame]

\* the loop's period has come (at once after start()): a cycle begins
PollBegin ==
    /\ poll.pc \in {"ready", "sleep"}
    /\ poll.cycle < MaxCycles
    /\ PollAdvance([poll EXCEPT !.cycle = @ + 1, !.pos = 0, !.size = Len(servers),
                                !.knocked = <<>>])
    /\ UNCHANGED <<db, servers, servers_by_guild, heap, waiters, net, codec, api, cmd>>

\* the awaited knock returned: on with the loop
PollKnockReturned ==
    /\ poll.pc = "knock"
    /\ frame["poll"].pc = "returned"
    /\ PollAdvance(poll)
    /\ UNCHANGED <<db, servers, servers_by_guild, heap, waiters, net, codec, api, cmd>>

\* the awaited knock raised: knock_servers catches nothing, the exception
\* leaves the loop body and discord's tasks.loop ends the task for good
PollKnockRaised ==
    /\ poll.pc = "knock"
    /\ frame["poll"].pc = "raised"
    /\ poll' = [poll EXCEPT !.pc = "stopped", !.exc = frame["poll"].exc]
    /\ frame' = [frame EXCEPT !["poll"] = IdleFrame]
    /\ UNCHANGED <<db, servers, servers_by_guild, heap, waiters, net, codec, api, cmd>>

(***************************************************************************)
(* Consumers of update_event                                               *)
(***************************************************************************)
\* "await server.update_event.wait()": returns at once when the event is
\* set, waits otherwise
WaiterWait(w, obj) ==
    /\ waiters[w].pc = "idle"
    /\ obj \in DOMAIN heap
    /\ waiters' = [waiters EXCEPT ![w] =
                      [pc |-> IF heap[obj].update_event THEN "woken" ELSE "waiting",
                       obj |-> obj, since |-> heap[obj].signals]]
    /\ UNCHANGED <<db, servers, servers_by_guild, heap, poll, frame, net, codec, api, cmd>>

\* the released task runs on, or the consumer's own timeout ends the wait
WaiterLeave(w) ==
    /\ waiters[w].pc \in {"woken", "waiting"}
    /\ waiters' = [waiters EXCEPT ![w] = [pc |-> "idle", obj |-> 0, since |-> 0]]
    /\ UNCHANGED <<db, servers, servers_by_guild, heap, poll, frame, net, codec, api, cmd>>

(***************************************************************************)
(* Initial states: the registrations found in storage and the remotes'     *)
(* behaviour                                                               *)
(***************************************************************************)
Row(id, guild, remote) == [id |-> id, discord_guild_id |-> guild, remote |-> remote]

Remote(may, count) == [may |-> may, count |-> count]

\* two servers, of one guild or of two; each remote is silent or answers
TwoNets == { {}, {<<"SI", 1>>, <<"PI", 1>>} }
TwoServers ==
    { [rows |-> <<Row(1, 1, RemoteA), Row(2, g, RemoteB)>>,
       net  |-> (RemoteA :> Remote(na, MaxReplies)) @@ (RemoteB :> Remote(nb, MaxReplies))] :
      g \in {1, 2}, na \in TwoNets, nb \in TwoNets }

\* one server that answers with n players, or with damaged datagrams too
OneNets ==
    { {<<"SI", n>>, <<"PI", n>>} : n \in 0..MAX_PLAYERS }
    \cup { {<<"SI", 1>>, <<"PI", 1>>, <<"badsum", 1>>},
           {<<"SI", 2>>, <<"PI", 1>>, <<"tag", 99>>},
           {<<"short", 7>>, <<"short", 0>>},
           {<<"SI", 1>>, <<"tag", TELLFILESNEEDED>>},
           {<<"PI", 1>>, <<"kartvars", 3>>, <<"kartvars", 226>>},
           {<<"trunc", 100>>, <<"truncpi", 575>>, <<"refuse", 3>>},
           {<<"tag", ASKINFO>>, <<"tag", MOREFILESNEEDED>>, <<"refuse", 2>>} }
OneServer ==
    { [rows |-> <<Row(1, 1, RemoteA)>>, net |-> (RemoteA :> Remote(n, MaxDatagrams))] :
      n \in OneNets }

(***************************************************************************)
(* The codec on its own: a buffer (possibly damaged) is decoded, or a       *)
(* packet is encoded and the bytes are decoded again                        *)
(***************************************************************************)
\* orig is the buffer as it was sent, kept to tell what the network did to it
CodecIdle ==
    [pc |-> "idle", buf |-> <<>>, orig |-> <<>>, packet |-> None, res |-> None,
     edits |-> 0]

ServerInfoPacket(info) == [cls |-> "ServerInfoPacket", info |-> info]
PlayerInfoPacket(players) == [cls |-> "PlayerInfoPacket", players |-> players]

\* the packets handed to Packet.pack
CodecPackets ==
    {AskPacket(v, t) : v \in {0, RINGRACERS_VERSION, 255}, t \in {0, 77}}
    \cup {ServerInfoPacket(Decoded[<<"SI", n>>].val.info) : n \in {0, 3}}
    \cup {PlayerInfoPacket(Decoded[<<"PI", n>>].val.players) : n \in {0, 3}}

\* the datagrams handed to the codec: the damaged ones, the large one and
\* some of the sound ones
CodecDatagrams ==
    {d \in DatagramIds : d[1] \notin {"SI", "PI"} \/ d[2] \in {0, 3, MAX_PLAYERS}}

\* a datagram comes in
CodecReceive(d) ==
    /\ codec.pc = "idle"
    /\ codec' = [codec EXCEPT !.pc = "buffer", !.buf = Wire(d), !.orig = Wire(d)]
    /\ UNCHANGED <<db, servers, servers_by_guild, heap, poll, frame, waiters, net, api, cmd>>

\* the amounts by which a damaged byte is off
Damages == {1, 128}

\* the network damages a byte of it
CodecDamage(i, delta) ==
    /\ codec.pc = "buffer"
    /\ codec.edits < MaxEdits
    /\ i \in 1..Len(codec.buf)
    /\ i <= MaxOffset \/ i = Len(codec.buf)
    /\ codec' = [codec EXCEPT !.buf = SetByte(@, i, (@[i] + delta) % 256), !.edits = @ + 1]
    /\ UNCHANGED <<db, servers, servers_by_guild, heap, poll, frame, waiters, net, api, cmd>>

\* the network cuts it short
CodecTruncate(k) ==
    /\ codec.pc = "buffer"
    /\ codec.edits < MaxEdits
    /\ k < Len(codec.buf)
    /\ k <= MaxKeep \/ k = Len(codec.buf) - 1
    /\ codec' = [codec EXCEPT !.buf = SubSeq(@, 1, k), !.edits = @ + 1]
    /\ UNCHANGED <<db, servers, servers_by_guild, heap, poll, frame, waiters, net, api, cmd>>

\* Packet.unpack(buf)
CodecDecode ==
    /\ codec.pc = "buffer"
    /\ codec' = [codec EXCEPT !.pc = "decoded", !.res = Some(Packet_unpack(codec.buf))]
    /\ UNCHANGED <<db, servers, servers_by_guild, heap, poll, frame, waiters, net, api, cmd>>

\* p.pack()
CodecEncode(p) ==
    /\ codec.pc = "idle"
    /\ codec' = [codec EXCEPT !.pc = "encoded", !.packet = Some(p),
                              !.res = Some(Packet_pack(p))]
    /\ UNCHANGED <<db, servers, servers_by_guild, heap, poll, frame, waiters, net, api, cmd>>

\* Packet.unpack(p.pack()): an exception of pack is the outcome
CodecRoundTrip ==
    /\ codec.pc = "encoded"
    /\ codec' = [codec EXCEPT !.pc = "roundtrip",
                              !.buf = IF codec.res[1].ok THEN codec.res[1].val ELSE <<>>,
                              !.res = IF codec.res[1].ok
                                      THEN Some(Packet_unpack(codec.res[1].val))
                                      ELSE codec.res]
    /\ UNCHANGED <<db, servers, servers_by_guild, heap, poll, frame, waiters, net, api, cmd>>

(***************************************************************************)
(* ServerWatcher as its callers use it: add, remove, load and iter          *)
(***************************************************************************)
ApiIdle ==
    [op |-> "none", obj |-> 0, guild |-> None, exc |-> "", yielded |-> <<>>,
     removed |-> {}]

MaxObjects == 3         \* WatchedServer objects ever constructed
Guilds == {1, 2}

\* the ids of a set of rows or objects, and the largest of them (0 of none)
Ids(seq) == {seq[i].id : i \in 1..Len(seq)}
MaxId(ids) == IF ids = {} THEN 0 ELSE CHOOSE m \in ids : \A k \in ids : k <= m

\* "INSERT ... RETURNING id": the table's definition is no part of the
\* repository; the new id is the one past the largest id in the table, or
\* the one past the largest id ever given
NewIds == {MaxId(Ids(db)) + 1, MaxId(Ids(db) \cup Ids(heap)) + 1}

\* list.remove(x): the first entry equal to x is taken out
list_remove(list, x) ==
    LET k == CHOOSE i \in 1..Len(list) :
                 list[i] = x /\ \A j \in 1..(i - 1) : list[j] # x
    IN  SubSeq(list, 1, k - 1) \o SubSeq(list, k + 1, Len(list))

\* remove_indices that forgets the primary mapping
remove_indices_group_only(dict, by_guild, obj, server) ==
    LET g == server.discord_guild_id
    IN  IF g \notin DOMAIN by_guild
           \/ \A i \in 1..Len(by_guild[g]) : by_guild[g][i] # obj
        THEN [servers |-> dict, servers_by_guild |-> by_guild, exc |-> ""]
        ELSE [servers |-> dict,
              servers_by_guild |-> [by_guild EXCEPT ![g] = list_remove(@, obj)],
              exc |-> ""]

\* remove_indices that leaves the group's list alone
remove_indices_primary_only(dict, by_guild, obj, server) ==
    IF IndexOfId(dict, server.id) = {}
    THEN [servers |-> dict, servers_by_guild |-> by_guild, exc |-> "KeyError"]
    ELSE [servers |-> SelectSeq(dict, LAMBDA e : e.id # server.id),
          servers_by_guild |-> by_guild, exc |-> ""]

\* ServerWatcher.remove, lines 177-181: servers.pop(server.id), then
\* servers.remove(server) on the list of the server's guild
remove_indices(dict, by_guild, obj, server) ==
    IF IndexOfId(dict, server.id) = {}
    THEN [servers |-> dict, servers_by_guild |-> by_guild, exc |-> "KeyError"]
    ELSE LET popped == SelectSeq(dict, LAMBDA e : e.id # server.id)
             g      == server.discord_guild_id
         IN  IF g \notin DOMAIN by_guild
             THEN [servers |-> popped, servers_by_guild |-> by_guild, exc |-> ""]
             ELSE IF \A i \in 1..Len(by_guild[g]) : by_guild[g][i] # obj
             THEN [servers |-> popped, servers_by_guild |-> by_guild, exc |-> "ValueError"]
             ELSE [servers |-> popped,
                   servers_by_guild |-> [by_guild EXCEPT ![g] = list_remove(@, obj)],
                   exc |-> ""]

\* ServerWatcher.iter: the objects a loop over iter(guild) gets when nothing
\* runs in between; guild is None or Some(id)
iter(dict, by_guild, guild) ==
    IF guild = None THEN [i \in 1..Len(dict) |-> dict[i].obj]
    ELSE IF guild[1] \in DOMAIN by_guild THEN by_guild[guild[1]]
    ELSE <<>>

\* the storage collaborator's insert-new-registration: the table's
\* definition is no part of the sources, so this follows the specification:
\* a remote that is registered already is refused, and storage may fail
insert_registration(rows, guild, remote, id, fails) ==
    IF fails THEN Raise("OperationalError", <<>>)
    ELSE IF \E i \in 1..Len(rows) : rows[i].remote = remote
    THEN Raise("IntegrityError", <<remote>>)
    ELSE Ok(Row(id, guild, remote))

\* add_result that tracks the server whether or not it was stored
add_result_unstored(ins, dict, by_guild, heap_, guild, remote) ==
    IF ~Server_init(remote).ok
    THEN [heap |-> heap_, servers |-> dict, servers_by_guild |-> by_guild,
          obj |-> 0, exc |-> IF ins.ok THEN Server_init(remote).exc ELSE ins.exc]
    ELSE LET server == WatchedServer(IF ins.ok THEN ins.val ELSE Row(0, guild, remote))
             obj    == Len(heap_) + 1
             idx    == _append(dict, by_guild, obj, server)
         IN  [heap |-> Append(heap_, server), servers |-> idx.servers,
              servers_by_guild |-> idx.servers_by_guild, obj |-> obj,
              exc |-> IF ins.ok THEN "" ELSE ins.exc]

\* ServerWatcher.add, lines 113-144, once the insert has returned or
\* raised: an exception of the insert leaves add before the object is
\* made, an exception of WatchedServer(...) leaves it after the commit
add_result(ins, dict, by_guild, heap_, guild, remote) ==
    IF ~ins.ok
    THEN [heap |-> heap_, servers |-> dict, servers_by_guild |-> by_guild,
          obj |-> 0, exc |-> ins.exc]
    ELSE IF ~Server_init(remote).ok
    THEN [heap |-> heap_, servers |-> dict, servers_by_guild |-> by_guild,
          obj |-> 0, exc |-> Server_init(remote).exc]
    ELSE LET server == WatchedServer(ins.val)
             obj    == Len(heap_) + 1
             idx    == _append(dict, by_guild, obj, server)
         IN  [heap |-> Append(heap_, server), servers |-> idx.servers,
              servers_by_guild |-> idx.servers_by_guild, obj |-> obj, exc |-> ""]

\* the call "await watcher.add(guild, remote)" as a whole
AddCall(guild, remote, id, fails) ==
    LET ins == insert_registration(db, guild, remote, id, fails)
        res == add_result(ins, servers, servers_by_guild, heap, guild, remote)
    IN  /\ db' = IF ins.ok THEN Append(db, ins.val) ELSE db
        /\ heap' = res.heap
        /\ servers' = res.servers
        /\ servers_by_guild' = res.servers_by_guild
        /\ api' = [api EXCEPT !.op = "add", !.obj = res.obj, !.guild = Some(guild),
                              !.exc = res.exc, !.yielded = <<>>]

\* ServerWatcher.add
WatcherAdd(guild, remote, id, fails) ==
    /\ Len(heap) < MaxObjects
    /\ id \in NewIds
    /\ AddCall(guild, remote, id, fails)
    /\ UNCHANGED <<poll, frame, waiters, net, codec, cmd>>

\* ServerWatcher.remove of an object the caller holds, tracked or not
WatcherRemove(obj) ==
    /\ obj \in 1..Len(heap)
    /\ LET server == heap[obj]
           idx    == remove_indices(servers, servers_by_guild, obj, server)
       IN  /\ db' = SelectSeq(db, LAMBDA row : row.id # server.id)
           /\ servers' = idx.servers
           /\ servers_by_guild' = idx.servers_by_guild
           /\ api' = [api EXCEPT !.op = "remove", !.obj = obj,
                                 !.guild = Some(server.discord_guild_id),
                                 !.exc = idx.exc, !.yielded = <<>>,
                                 !.removed = IF idx.exc = "" THEN @ \cup {obj} ELSE @]
    /\ UNCHANGED <<heap, poll, frame, waiters, net, codec, cmd>>

\* ServerWatcher.load, whenever it is called
WatcherLoad ==
    /\ Len(heap) + Len(db) <= MaxObjects
    /\ LET st == load_loop(db, 1, [heap |-> heap, servers |-> servers,
                                   servers_by_guild |-> servers_by_guild,
                                   exc |-> ""])
       IN  /\ heap' = st.heap
           /\ servers' = st.servers
           /\ servers_by_guild' = st.servers_by_guild
           /\ api' = [api EXCEPT !.op = "load", !.obj = 0, !.guild = None,
                                 !.exc = st.exc, !.yielded = <<>>]
    /\ UNCHANGED <<db, poll, frame, waiters, net, codec, cmd>>

\* list(watcher.iter(guild))
WatcherIter(guild) ==
    /\ api' = [api EXCEPT !.op = "iter", !.obj = 0, !.guild = guild, !.exc = "",
                          !.yielded = iter(servers, servers_by_guild, guild)]
    /\ UNCHANGED <<db, servers, servers_by_guild, heap, poll, frame, waiters, net, codec, cmd>>

(***************************************************************************)
(* The /servers commands: add and list                                     *)
(***************************************************************************)
CmdIdle ==
    [pc |-> "idle", op |-> "none", guild |-> 0, obj |-> 0, pos |-> 0, servers |-> <<>>,
     exc |-> "", calls |-> 0]

MaxCommands == 1        \* /servers commands invoked

\* command_servers_add up to "await interaction.response.defer": the
\* server is registered, or the command ends with add's exception.  The
\* client serves commands once setup_hook has returned
CommandAdd(guild, remote, id, fails) ==
    /\ poll.pc # "setup"
    /\ cmd.pc = "idle"
    /\ cmd.calls < MaxCommands
    /\ Len(heap) < MaxObjects
    /\ id \in NewIds
    /\ AddCall(guild, remote, id, fails)
    /\ LET ins == insert_registration(db, guild, remote, id, fails)
           res == add_result(ins, servers, servers_by_guild, heap, guild, remote)
       IN  cmd' = [cmd EXCEPT !.pc = IF res.exc = "" THEN "defer" ELSE "failed",
                              !.op = "add", !.guild = guild, !.obj = res.obj,
                              !.exc = res.exc, !.calls = @ + 1]
    /\ UNCHANGED <<poll, frame, waiters, net, codec>>

\* command_servers_list up to "await interaction.response.defer"
CommandList(guild) ==
    /\ poll.pc # "setup"
    /\ cmd.pc = "idle"
    /\ cmd.calls < MaxCommands
    /\ cmd' = [cmd EXCEPT !.pc = "defer", !.op = "list", !.guild = guild,
                          !.calls = @ + 1]
    /\ UNCHANGED <<db, servers, servers_by_guild, heap, poll, frame, waiters, net, codec,
                   api>>

\* "for server in app.watcher.iter(interaction.guild): await
\* server.knock(); servers.append(server)": the next round of the loop.
\* iter(guild) walks the guild's list itself, by position
list_advance(c) ==
    LET list == iter(servers, servers_by_guild, Some(c.guild))
    IN  IF c.pos < Len(list)
        THEN /\ cmd' = [c EXCEPT !.pc = "knock", !.pos = @ + 1, !.obj = list[c.pos + 1]]
             /\ frame' = [frame EXCEPT !["cmd"] =
                             [IdleFrame EXCEPT !.pc = "create_socket",
                                               !.obj = list[c.pos + 1]]]
        ELSE /\ cmd' = [c EXCEPT !.pc = "done"]
             /\ frame' = [frame EXCEPT !["cmd"] = IdleFrame]

\* the command is acknowledged: add knocks its new server, list begins its
\* loop
CommandDeferred ==
    /\ cmd.pc = "defer"
    /\ IF cmd.op = "add"
       THEN /\ cmd' = [cmd EXCEPT !.pc = "knock"]
            /\ frame' = [frame EXCEPT !["cmd"] =
                            [IdleFrame EXCEPT !.pc = "create_socket", !.obj = cmd.obj]]
       ELSE list_advance(cmd)
    /\ UNCHANGED <<db, servers, servers_by_guild, heap, poll, waiters, net, codec, api>>

\* the awaited knock returned: add sends its view, list goes on
CommandKnockReturned ==
    /\ cmd.pc = "knock"
    /\ frame["cmd"].pc = "returned"
    /\ IF cmd.op = "add"
       THEN /\ cmd' = [cmd EXCEPT !.pc = "done", !.servers = <<cmd.obj>>]
            /\ frame' = [frame EXCEPT !["cmd"] = IdleFrame]
       ELSE list_advance([cmd EXCEPT !.servers = Append(@, cmd.obj)])
    /\ UNCHANGED <<db, servers, servers_by_guild, heap, poll, waiters, net, codec, api>>

\* the awaited knock raised: add passes over PacketError and ConnectError
\* and sends its view, list catches nothing and ends with the exception
CommandKnockRaised ==
    /\ cmd.pc = "knock"
    /\ frame["cmd"].pc = "raised"
    /\ cmd' = IF cmd.op = "add" /\ frame["cmd"].exc \in PacketError \cup {"ConnectError"}
              THEN [cmd EXCEPT !.pc = "done", !.servers = <<cmd.obj>>]
              ELSE [cmd EXCEPT !.pc = "failed", !.exc = frame["cmd"].exc]
    /\ frame' = [frame EXCEPT !["cmd"] = IdleFrame]
    /\ UNCHANGED <<db, servers, servers_by_guild, heap, poll, waiters, net, codec, api>>

\* what Init, KnockInit and CodecInit share: nothing loaded, nothing running
Constructed(cycle) ==
    /\ servers = <<>>
    /\ servers_by_guild = <<>>
    /\ heap = <<>>
    /\ poll = [pc |-> "setup", pos |-> 0, size |-> 0, cycle |-> cycle, knocked |-> <<>>,
               exc |-> ""]
    /\ frame = [t \in Tasks |-> IdleFrame]
    /\ waiters = [w \in Waiters |-> [pc |-> "idle", obj |-> 0, since |-> 0]]
    /\ api = ApiIdle
    /\ cmd = CmdIdle

Init ==
    /\ \E sc \in TwoServers : db = sc.rows /\ net = sc.net
    /\ Constructed(0)
    /\ codec = CodecIdle

Next ==
    \/ Load
    \/ PollBegin
    \/ PollKnockReturned
    \/ PollKnockRaised
    \/ \E t \in Tasks : CreateSocket(t)
    \/ \E t \in Tasks, d \in DatagramIds, dt \in {0, MaxDelay} : RecvDatagram(t, d, dt)
    \/ \E t \in Tasks : RecvTimeout(t)
    \/ \E w \in Waiters, obj \in 1..Len(heap) : WaiterWait(w, obj)
    \/ \E w \in Waiters : WaiterLeave(w)

\* two tracked servers, polled for MaxCycles cycles, and a consumer
\* task; a reply arrives at once or MaxDelay ticks into the wait
Spec == Init /\ [][Next]_vars

\* Spec under fair scheduling: the event loop runs every task that can
\* run, a started period comes, and a wait ends by a datagram or by its
\* timeout
PollFairSpec ==
    /\ Init
    /\ [][Next]_vars
    /\ WF_vars(PollBegin)
    /\ WF_vars(PollKnockReturned)
    /\ WF_vars(PollKnockRaised)
    /\ WF_vars(\E t \in Tasks : CreateSocket(t))
    /\ WF_vars(\E t \in Tasks : RecvTimeout(t))

\* one tracked server and the poll loop's last cycle: a knock reads nothing
\* that an earlier knock stored but the ping window
KnockInit ==
    /\ \E sc \in OneServer : db = sc.rows /\ net = sc.net
    /\ Constructed(MaxCycles - 1)
    /\ codec = CodecIdle

KnockNext ==
    \/ Load
    \/ PollBegin
    \/ PollKnockReturned
    \/ PollKnockRaised
    \/ \E t \in Tasks : CreateSocket(t)
    \/ \E t \in Tasks, d \in DatagramIds, dt \in 0..MaxDelay : RecvDatagram(t, d, dt)
    \/ \E t \in Tasks : RecvTimeout(t)

KnockSpec == KnockInit /\ [][KnockNext]_vars

\* the codec alone: no registration, no task
\* one server knocked for PingCycles cycles, by a remote whose replies may
\* arrive damaged: the round-trip samples and the window that holds them
PingCycles == 7

PingServer ==
    [rows |-> <<Row(1, 1, RemoteA)>>,
     net  |-> (RemoteA :> Remote({<<"SI", 1>>, <<"PI", 1>>, <<"badsum", 1>>}, MaxReplies + 1))]

PingInit ==
    /\ db = PingServer.rows /\ net = PingServer.net
    /\ Constructed(MaxCycles - PingCycles)
    /\ codec = CodecIdle

PingSpec == PingInit /\ [][KnockNext]_vars

\* one tracked server whose remote never stops sending, and a clock that
\* advances: a wait ends by its timeout or by a datagram that took time
StreamNets ==
    { {<<"SI", 2>>}, {<<"SI", 2>>, <<"PI", 1>>}, {<<"PI", 1>>, <<"badsum", 1>>}, {} }

StreamInit ==
    /\ \E n \in StreamNets :
          /\ db = <<Row(1, 1, RemoteA)>>
          /\ net = (RemoteA :> Remote(n, MaxReplies))
    /\ Constructed(MaxCycles - 1)
    /\ codec = CodecIdle

ClockAdvances ==
    \/ \E t \in Tasks, d \in DatagramIds, dt \in 1..MaxDelay : RecvStream(t, d, dt)
    \/ \E t \in Tasks : RecvTimeout(t)

StreamNext ==
    \/ Load
    \/ PollBegin
    \/ PollKnockReturned
    \/ PollKnockRaised
    \/ \E t \in Tasks : CreateSocket(t)
    \/ \E t \in Tasks, d \in DatagramIds, dt \in 0..MaxDelay : RecvStream(t, d, dt)
    \/ \E t \in Tasks : RecvTimeout(t)

StreamSpec ==
    /\ StreamInit
    /\ [][StreamNext]_vars
    /\ WF_vars(\E t \in Tasks : CreateSocket(t))
    /\ WF_vars(ClockAdvances)

\* the poll loop over two servers of a guild while a caller removes
\* servers: remove runs wherever the loop awaits
RemoveServers ==
    { [rows |-> <<Row(1, 1, RemoteA), Row(2, 1, RemoteB)>>,
       net  |-> (RemoteA :> Remote(na, MaxReplies)) @@ (RemoteB :> Remote(nb, MaxReplies))] :
      na \in TwoNets, nb \in TwoNets }

RemoveInit ==
    /\ \E sc \in RemoveServers : db = sc.rows /\ net = sc.net
    /\ Constructed(0)
    /\ codec = CodecIdle

RemoveNext ==
    \/ Load
    \/ PollBegin
    \/ PollKnockReturned
    \/ PollKnockRaised
    \/ \E t \in Tasks : CreateSocket(t)
    \/ \E t \in Tasks, d \in DatagramIds, dt \in {0, MaxDelay} : RecvDatagram(t, d, dt)
    \/ \E t \in Tasks : RecvTimeout(t)
    \/ \E obj \in 1..Len(heap) : WatcherRemove(obj)

RemoveSpec == RemoveInit /\ [][RemoveNext]_vars

\* the poll loop and one /servers command over one or two servers of a
\* guild: the tasks interleave wherever one of them awaits
CommandServers ==
    { [rows |-> rows,
       net  |-> (RemoteA :> Remote(na, MaxReplies)) @@ (RemoteB :> Remote(nb, MaxReplies))] :
      rows \in {<<Row(1, 1, RemoteA)>>, <<Row(1, 1, RemoteA), Row(2, 1, RemoteB)>>},
      na \in TwoNets, nb \in TwoNets }

CommandInit ==
    /\ \E sc \in CommandServers : db = sc.rows /\ net = sc.net
    /\ Constructed(MaxCycles - 1)
    /\ codec = CodecIdle

CommandNext ==
    \/ Load
    \/ PollBegin
    \/ PollKnockReturned
    \/ PollKnockRaised
    \/ \E t \in Tasks : CreateSocket(t)
    \/ \E t \in Tasks, d \in DatagramIds, dt \in {0, MaxDelay} : RecvDatagram(t, d, dt)
    \/ \E t \in Tasks : RecvTimeout(t)
    \/ \E remote \in {RemoteB, RemoteHostOnly}, id \in 1..(MaxObjects + 1),
          fails \in BOOLEAN :
          CommandAdd(1, remote, id, fails)
    \/ CommandList(1)
    \/ CommandDeferred
    \/ CommandKnockReturned
    \/ CommandKnockRaised

CommandSpec == CommandInit /\ [][CommandNext]_vars

\* a watcher over a table that is empty or holds one row
WatcherInit ==
    /\ db \in {<<>>, <<Row(1, 1, RemoteA)>>}
    /\ net = <<>>
    /\ Constructed(0)
    /\ codec = CodecIdle

WatcherNext ==
    \/ \E guild \in Guilds, remote \in {RemoteA, RemoteB}, id \in 1..(MaxObjects + 1),
          fails \in BOOLEAN :
          WatcherAdd(guild, remote, id, fails)
    \/ \E obj \in 1..Len(heap) : WatcherRemove(obj)
    \/ WatcherLoad
    \/ \E guild \in {None} \cup {Some(g) : g \in Guilds} : WatcherIter(guild)

WatcherSpec == WatcherInit /\ [][WatcherNext]_vars

CodecInit ==
    /\ db = <<>>
    /\ net = <<>>
    /\ Constructed(0)
    /\ codec = CodecIdle

CodecNext ==
    \/ \E d \in CodecDatagrams : CodecReceive(d)
    \/ \E i \in 1..Len(codec.buf), delta \in Damages : CodecDamage(i, delta)
    \/ \E k \in 0..Len(codec.buf) : CodecTruncate(k)
    \/ CodecDecode
    \/ \E p \in CodecPackets : CodecEncode(p)
    \/ CodecRoundTrip

CodecSpec == CodecInit /\ [][CodecNext]_vars

(***************************************************************************)
(* Properties                                                              *)
(***************************************************************************)
Range(seq) == {seq[i] : i \in 1..Len(seq)}
\* the objects of the primary mapping
Tracked == {servers[i].obj : i \in 1..Len(servers)}
InKnock(t) == frame[t].pc \in {"create_socket", "recv"}
Ended(t) == frame[t].pc \in {"returned", "raised"}
\* the completion condition on a frame
Complete(f) == f.info # None /\ Len(f.players) >= f.info[1].number_of_players
\* the step receives a datagram in the knock of t
Receives(t) == frame[t].pc = "recv" /\ Len(frame'[t].got) = Len(frame[t].got) + 1
Received(t) == frame'[t].got[Len(frame'[t].got)]
TypedDecodeError(d) == ~Decoded[d].ok /\ Decoded[d].exc \in PacketError

\* C1: a poll cycle that is over, run to its end or left by a failed knock,
\* has knocked every tracked server.
C1_CycleKnocksEveryServer ==
    poll.pc \in {"sleep", "stopped"} => Tracked \subseteq Range(poll.knocked)

\* C2: a step of a knock that does not make the knock return (so every
\* step of a knock that fails) leaves the server's stored info and roster
\* as they were and the server in the primary mapping and in its group's
\* list.
C2_FailedKnockChangesNothing ==
    [][\A t \in Tasks :
          (InKnock(t) /\ frame'[t].pc # "returned") =>
              LET obj == frame[t].obj
              IN  /\ heap'[obj].info = heap[obj].info
                  /\ heap'[obj].players = heap[obj].players
                  /\ servers' = servers /\ obj \in Tracked
                  /\ servers_by_guild' = servers_by_guild
                  /\ obj \in Range(servers_by_guild[heap[obj].discord_guild_id])]_vars

\* a knock of a server with stored info has failed with ConnectError
C2_Witness ==
    \E t \in Tasks :
        /\ frame[t].pc = "raised" /\ frame[t].exc = "ConnectError"
        /\ heap[frame[t].obj].info # None
        /\ heap[frame[t].obj].players # <<>>
        /\ frame[t].obj \in Tracked

\* C3 as claimed: the step that completes a knock, with the pair or with
\* ConnectError, signals the server's event once and releases every task
\* waiting on it.
C3_EveryCompletedKnockSignals ==
    [][\A t \in Tasks :
          (InKnock(t) /\ Ended(t)' /\ frame'[t].exc \in {"", "ConnectError"}) =>
              LET obj == frame[t].obj
              IN  /\ heap'[obj].signals = heap[obj].signals + 1
                  /\ \A w \in Waiters :
                        (waiters[w].pc = "waiting" /\ waiters[w].obj = obj)
                            => waiters'[w].pc = "woken"]_vars

\* C4: a knock that ends without having received a datagram has raised
\* ConnectError with its attempt counter at the budget, the default 5, and
\* has lasted no longer than the deadline plus one attempt's timeout (which
\* is at most the deadline).
C4_SilentRemoteFailsAfterBudget ==
    \A t \in Tasks :
        (Ended(t) /\ frame[t].got = <<>>) =>
            /\ frame[t].pc = "raised" /\ frame[t].exc = "ConnectError"
            /\ frame[t].tries = heap[frame[t].obj].tries
            /\ frame[t].tries = DEFAULT_TRIES
            /\ frame[t].elapsed <= DEFAULT_TIMEOUT + DEFAULT_TIMEOUT

\* a knock that heard nothing has failed
C4_Witness ==
    \E t \in Tasks :
        /\ frame[t].pc = "raised" /\ frame[t].got = <<>>
        /\ frame[t].asks >= 1 /\ frame[t].elapsed >= DEFAULT_TIMEOUT

\* C5: for n in 0..16, a knock that has received a server-info datagram
\* advertising n players and then one player-info datagram with n non-empty
\* slots has returned, with a roster of n entries, which is stored.
C5_InfoThenPlayersReturnsRoster ==
    \A t \in Tasks, n \in 0..MAX_PLAYERS :
        frame[t].got = << <<"SI", n>>, <<"PI", n>> >> =>
            /\ frame[t].pc = "returned"
            /\ Len(frame[t].players) = n
            /\ frame[t].info[1].number_of_players = n
            /\ heap[frame[t].obj].players = frame[t].players
            /\ Len(heap[frame[t].obj].players) = n

\* the case n = 16: a full player-info datagram after the server-info
C5_Witness ==
    \E t \in Tasks :
        /\ frame[t].got = << <<"SI", MAX_PLAYERS>>, <<"PI", MAX_PLAYERS>> >>
        /\ frame[t].pc = "returned"

\* C6 as claimed: a knock is never waiting for a datagram while the
\* completion condition holds of what it has gathered.
C6_CompleteKnockDoesNotWait ==
    \A t \in Tasks : frame[t].pc = "recv" => ~Complete(frame[t])

\* C7 as claimed: a knock that has ended has returned with the completion
\* condition true, or has raised ConnectError; the stored info and roster
\* are those of the last knock that returned.
C7_ReturnsCompleteOrConnectError ==
    \A t \in Tasks :
        Ended(t) =>
            \/ frame[t].pc = "returned" /\ Complete(frame[t])
                  /\ heap[frame[t].obj].info = frame[t].info
                  /\ heap[frame[t].obj].players = frame[t].players
            \/ frame[t].pc = "raised" /\ frame[t].exc = "ConnectError"

C9_DecodeFailsTyped ==
    codec.pc = "decoded" =>
        \/ codec.res[1].ok
        \/ codec.res[1].exc \in {"MissingHeaderError", "BadChecksumError", "PacketTypeError"}

\* C10 as claimed: decoding what encode made of a packet succeeds and
\* gives the packet back.
C10_RoundTrip ==
    codec.pc = "roundtrip" =>
        /\ codec.res[1].ok
        /\ \A k \in DOMAIN codec.packet[1] : codec.res[1].val[k] = codec.packet[1][k]

\* the positions at which the buffer is not what was sent
Damaged == {i \in 1..Len(codec.buf) : codec.buf[i] # codec.orig[i]}

\* C11: decode of a buffer shorter than 8 bytes, the empty one too, fails
\* with MissingHeaderError.
C11_ShortBufferFailsMissingHeader ==
    (codec.pc = "decoded" /\ Len(codec.buf) < 8) =>
        (~codec.res[1].ok /\ codec.res[1].exc = "MissingHeaderError")

\* the empty buffer, and a buffer of 7 bytes, have been decoded
C11_Witness ==
    /\ codec.pc = "decoded" /\ Len(codec.buf) \in {0, 7}
    /\ Len(codec.orig) > 8

\* C12: when a buffer that decode accepts has the value of one byte after
\* the 8-byte header changed, the computed checksum is another one and
\* decode fails with BadChecksumError.
C12_PayloadByteChangeFailsChecksum ==
    (/\ codec.pc = "decoded"
     /\ Len(codec.buf) = Len(codec.orig)
     /\ Cardinality(Damaged) = 1 /\ Damaged \subseteq 9..Len(codec.buf)
     /\ Packet_unpack(codec.orig).ok) =>
        /\ net_checksum(codec.buf, 4) # net_checksum(codec.orig, 4)
        /\ ~codec.res[1].ok /\ codec.res[1].exc = "BadChecksumError"

\* the last byte of an accepted player-info frame was changed, and the
\* frame decoded
C12_Witness ==
    /\ codec.pc = "decoded" /\ codec.orig = Wire(<<"PI", 3>>)
    /\ Damaged = {Len(codec.orig)}

\* C13 as claimed: the checksum computed of a buffer is the weighted byte
\* sum reduced modulo 2^32: it fits in 32 bits, and a datagram whose header
\* field holds the wrapped sum is not refused for its checksum.
C13_ChecksumWraps32 ==
    (codec.pc = "decoded" /\ Len(codec.buf) >= 8) =>
        LET c == net_checksum(codec.buf, 4)
        IN  /\ c[1] < 65536
            /\ int_from_bytes(Slice(codec.buf, 0, 4)) = Wrap32(c)
                  => (codec.res[1].ok \/ codec.res[1].exc # "BadChecksumError")

\* C14 as claimed: the encoded ask request is 13 bytes: the 4-byte
\* checksum, two zero bytes, the tag 12 at offset 6, a zero byte, the
\* 1-byte version and right after it the 4-byte time, without padding.
C14_AskRequestIs13Bytes ==
    (codec.pc = "encoded" /\ codec.packet[1].cls = "AskPacket") =>
        /\ codec.res[1].ok
        /\ LET buf == codec.res[1].val
           IN  /\ Len(buf) = 13
               /\ int_from_bytes(Slice(buf, 0, 4)) = net_checksum(buf, 4)
               /\ Slice(buf, 4, 8) = <<0, 0, ASKINFO, 0>>
               /\ buf[9] = codec.packet[1].version
               /\ Slice(buf, 9, 13) = struct_pack_I(U32(codec.packet[1].time))

\* C15 as claimed: decode of a buffer of 8 bytes or more, with a correct
\* checksum, whose tag at offset 6 is not a registered payload type fails
\* with PacketTypeError carrying the tag; so for the tags 32 and 33.
C15_UnregisteredTagFailsPacketType ==
    (/\ codec.pc = "decoded" /\ Len(codec.buf) >= 8
     /\ int_from_bytes(Slice(codec.buf, 0, 4)) = net_checksum(codec.buf, 4)
     /\ codec.buf[7] \notin DOMAIN packet_types) =>
        codec.res[1] = Raise("PacketTypeError", <<codec.buf[7]>>)

\* C16: no player slot with num = 255 is in the roster a knock is
\* gathering or has returned, nor in a server's stored roster, whatever
\* datagrams were received.
C16_EmptySlotNeverInRoster ==
    /\ \A t \in Tasks : \A i \in 1..Len(frame[t].players) :
          frame[t].players[i].num # 255
    /\ \A obj \in DOMAIN heap : \A i \in 1..Len(heap[obj].players) :
          heap[obj].players[i].num # 255

\* a knock has returned a roster of 3 gathered from a player-info datagram
\* with 13 empty slots, named all the same
C16_Witness ==
    \E t \in Tasks :
        /\ frame[t].pc = "returned"
        /\ frame[t].got = << <<"SI", 3>>, <<"PI", 3>> >>
        /\ Len(heap[frame[t].obj].players) = 3
        /\ Len(SelectSeq(Decoded[<<"PI", 3>>].val.players, is_empty)) = MAX_PLAYERS - 3

\* C17 as claimed: a server's round-trip sample window never holds more
\* than 5 samples.
C17_WindowHoldsAtMostFive ==
    \A obj \in DOMAIN heap : Len(heap[obj].pings) <= PINGS_LIMIT

\* the last k entries of a sequence
Last(seq, k) == SubSeq(seq, Len(seq) - k + 1, Len(seq))
\* equality of two fractions
SameFraction(a, b) == a[1] * b[2] = b[1] * a[2]
Min(a, b) == IF a < b THEN a ELSE b

\* C18 as claimed: after N >= 1 knocks of a server have returned, its ping
\* is the arithmetic mean of the last min(N, 5) samples recorded.
C18_PingIsMeanOfLastSamples ==
    \A obj \in DOMAIN heap :
        heap[obj].signals >= 1 =>
            LET k == Min(heap[obj].signals, PINGS_LIMIT)
            IN  /\ ping(heap[obj]).ok
                /\ Len(heap[obj].pings) >= k
                /\ SameFraction(ping(heap[obj]).val, <<sum(Last(heap[obj].pings, k)), k>>)

\* C19: an object whose remove has completed is yielded neither by iter()
\* nor by iter(guild) of the guild it was in, in every later state.
C19_RemovedServerNeverYielded ==
    \A obj \in api.removed :
        /\ obj \notin Range(iter(servers, servers_by_guild, None))
        /\ obj \notin Range(iter(servers, servers_by_guild, Some(heap[obj].discord_guild_id)))
        /\ api.op = "iter" => obj \notin Range(api.yielded)

\* a server was removed from a guild that keeps another one, and the
\* guild has been iterated since
C19_Witness ==
    /\ api.op = "iter" /\ api.guild # None /\ api.yielded # <<>>
    /\ \E obj \in api.removed : heap[obj].discord_guild_id = api.guild[1]

\* C20 as claimed: after any calls of add, remove and load, every server of
\* the primary mapping is exactly once in the list of its guild, and every
\* server of a guild's list is in the primary mapping.
C20_IndicesHaveSameMembership ==
    /\ \A i \in 1..Len(servers) :
          LET obj == servers[i].obj
              g   == heap[obj].discord_guild_id
          IN  /\ g \in DOMAIN servers_by_guild
              /\ Cardinality({k \in 1..Len(servers_by_guild[g]) :
                                 servers_by_guild[g][k] = obj}) = 1
    /\ \A g \in DOMAIN servers_by_guild :
          Range(servers_by_guild[g]) \subseteq Tracked

\* no two servers of the primary mapping have the same remote
TrackedOncePerRemote ==
    /\ \A i, j \in 1..Len(servers) :
          heap[servers[i].obj].remote = heap[servers[j].obj].remote => i = j
    /\ (api.op = "add" /\ api.exc = "") =>
          \A i \in 1..Len(servers) :
              heap[servers[i].obj].remote = heap[api.obj].remote
                  => servers[i].obj = api.obj

\* a call of add that is refused for its remote changes neither index
DuplicateAddRejected ==
    (api'.op = "add" /\ api' # api /\ api'.exc = "IntegrityError") =>
        (servers' = servers /\ servers_by_guild' = servers_by_guild /\ heap' = heap)

C22_FailedInsertLeavesIndices ==
    [][(api'.op = "add" /\ api' # api /\ api'.exc # "") =>
          /\ servers' = servers /\ servers_by_guild' = servers_by_guild
          /\ heap' = heap /\ db' = db
          /\ api'.exc \in {"OperationalError", "IntegrityError"}]_vars

\* storage failed under an add while a server is tracked
C22_Witness ==
    /\ api.op = "add" /\ api.exc = "OperationalError"
    /\ servers # <<>> /\ DOMAIN servers_by_guild # {}

\* C23: a poll cycle iterates a consistent snapshot: when add runs while
\* the cycle is suspended in a knock, the iteration does not fail, and the
\* cycle that ends has knocked every server tracked since it began once
C23_IterationIsASnapshot ==
    /\ poll.exc # "RuntimeError"
    /\ poll.pc = "sleep" =>
          /\ \A i, j \in 1..Len(poll.knocked) : poll.knocked[i] = poll.knocked[j] => i = j
          /\ \A i \in 1..poll.size : servers[i].obj \in Range(poll.knocked)

\* C24: at every moment at most one knock of a WatchedServer is in flight,
\* whichever task began it: the poll loop or a command
C24_OneKnockInFlightPerServer ==
    \A t, u \in Tasks :
        (t # u /\ InKnock(t) /\ InKnock(u)) => frame[t].obj # frame[u].obj

\* C27: /servers list does not fail as a whole because a server of the
\* guild is unreachable: no ConnectError of a knock ends the command, and
\* the listing it sends holds every server of the guild
C27_ListingSurvivesUnreachableServer ==
    cmd.op = "list" =>
        /\ cmd.exc # "ConnectError"
        /\ cmd.pc = "done" =>
               cmd.servers = iter(servers, servers_by_guild, Some(cmd.guild))

\* C25: a knock holds one UDP association: none before create_socket
\* returns, an open one while _get_info waits, and a released one once
\* the knock has ended, whether it returned, raised ConnectError or
\* raised any other exception
C25_SocketReleasedOnEveryExit ==
    \A t \in Tasks :
        /\ frame[t].pc \in {"none", "create_socket"} => frame[t].socket = "none"
        /\ frame[t].pc = "recv" => frame[t].socket = "open"
        /\ Ended(t) => frame[t].socket = "closed"

\* a knock ended by an exception that is neither ConnectError nor a
\* PacketError, its socket released
C25_Witness ==
    \E t \in Tasks :
        /\ frame[t].pc = "raised"
        /\ frame[t].exc \notin PacketError \cup {"ConnectError"}
        /\ frame[t].got # <<>>
        /\ frame[t].socket = "closed"

\* C26: a server registered with a remote that holds a host and no ":port"
\* is constructed, with the default port: the add that stored the row
\* returns the tracked object of that remote
C26_HostOnlyRemoteIsConstructed ==
    [][(Len(db') = Len(db) + 1 /\ db'[Len(db')].remote = RemoteHostOnly) =>
          /\ api'.exc = ""
          /\ api'.obj \in Tracked'
          /\ heap'[api'.obj].remote = RemoteHostOnly]_vars

\* C28: the roster a knock returns holds at most MAX_PLAYERS entries,
\* whatever datagrams arrived, several player-info datagrams included
C28_RosterAtMostMaxPlayers ==
    \A t \in Tasks : frame[t].pc = "returned" => Len(frame[t].players) <= MAX_PLAYERS

AsksWithinBudget ==
    \A t \in Tasks :
        frame[t].obj # 0 =>
            /\ frame[t].asks <= heap[frame[t].obj].tries
            /\ frame[t].asks <= frame[t].tries + 1

OneAskPerAttempt ==
    \A t \in Tasks :
        (frame[t].pc = "recv" /\ frame'[t].obj = frame[t].obj) =>
            /\ frame'[t].asks \in {frame[t].asks, frame[t].asks + 1}
            /\ frame'[t].asks = frame[t].asks + 1 =>
                   /\ frame'[t].tries > frame[t].tries
                   /\ frame'[t].last_sent = frame'[t].tries
                   /\ frame'[t].last_sent > frame[t].last_sent
            /\ (frame'[t].pc = "recv" /\ frame'[t].tries = frame[t].tries) =>
                   /\ frame'[t].asks = frame[t].asks
                   /\ ~frame'[t].asking

\* C29: a knock sends at most as many asks as it has attempts and at most
\* one ask per value of the attempt counter; after a reply that leaves the
\* counter as it is the knock only listens, and a new ask goes out only
\* once the counter has grown
C29_OneAskPerAttempt == []AsksWithinBudget /\ [][OneAskPerAttempt]_vars

\* the knock has sent a second ask and, a reply received, listens again
\* without asking
C29_Witness ==
    \E t \in Tasks :
        /\ frame[t].pc = "recv"
        /\ ~frame[t].asking
        /\ frame[t].asks >= 2
        /\ frame[t].tries = frame[t].last_sent
        /\ frame[t].got # <<>>

DeadlineEndsKnock ==
    \A t \in Tasks :
        (frame[t].pc \in {"recv", "returned", "raised"} /\ frame[t].remaining <= 0) =>
            /\ Ended(t)
            /\ frame[t].tries = heap[frame[t].obj].tries

NoAskAfterDeadline ==
    \A t \in Tasks :
        (frame[t].pc = "recv" /\ frame'[t].remaining <= 0) =>
            frame'[t].asks = frame[t].asks

\* C30: once the deadline of the knock is reached no ask is sent and no
\* receive is awaited: the attempts that are left are counted without
\* network activity and the loop is left
C30_DeadlineStopsNetwork == []DeadlineEndsKnock /\ [][NoAskAfterDeadline]_vars

\* the deadline ended a knock that had attempts left: the budget is used
\* up though fewer asks were sent
C30_Witness ==
    \E t \in Tasks :
        /\ Ended(t)
        /\ frame[t].remaining = 0
        /\ frame[t].tries = heap[frame[t].obj].tries
        /\ frame[t].asks < frame[t].tries
        /\ frame[t].elapsed = DEFAULT_TIMEOUT

\* C31: every knock ends, by returning or by raising, whatever the remote
\* sends and however long it goes on sending, as long as the clock
\* advances
C31_EveryKnockTerminates ==
    \A t \in Tasks : (frame[t].pc = "create_socket") ~> Ended(t)

\* a knock that ended though valid server-info datagrams kept arriving,
\* more of them than arrive at once, and no roster
C31_Witness ==
    \E t \in Tasks :
        /\ Ended(t)
        /\ Len(frame[t].got) > MaxReplies + 1
        /\ \A i \in 1..Len(frame[t].got) : frame[t].got[i] = <<"SI", 2>>
        /\ frame[t].exc = "ConnectError"

\* C32: a knock appends one round-trip sample for an ask whose first reply
\* arrives in time, and none when the wait times out or when the datagram
\* arrives on an attempt that was answered already
C32_OneSamplePerAnsweredAsk ==
    [][\A t \in Tasks :
          frame[t].pc = "recv" =>
              LET pings == heap[frame[t].obj].pings
                  after == heap'[frame[t].obj].pings
              IN  IF Receives(t) /\ frame[t].asking
                  THEN /\ after # <<>>
                       /\ \/ SubSeq(after, 1, Len(after) - 1) = pings
                          \/ /\ pings # <<>>
                             /\ SubSeq(after, 1, Len(after) - 1) = Tail(pings)
                       /\ after[Len(after)] = frame'[t].elapsed - frame[t].elapsed
                  ELSE after = pings]_vars

\* one ask, answered, and a second datagram received on the same attempt:
\* one sample
C32_Witness ==
    \E t \in Tasks :
        /\ frame[t].pc = "recv"
        /\ frame[t].asks = 1
        /\ Len(frame[t].got) >= 2
        /\ Len(heap[frame[t].obj].pings) = 1

EventNeverObservedSet ==
    /\ \A obj \in 1..Len(heap) : ~heap[obj].update_event
    /\ \A w \in Waiters :
          waiters[w].pc = "woken" => heap[waiters[w].obj].signals > waiters[w].since

WaitBeginsUnreleased ==
    \A w \in Waiters :
        /\ waiters[w].pc = "idle" => waiters'[w].pc # "woken"
        /\ (waiters[w].pc = "waiting" /\ waiters'[w].pc = "woken") =>
               heap'[waiters[w].obj].signals = heap[waiters[w].obj].signals + 1

\* C33: the event is cleared in the step that sets it, so no task finds it
\* set: a task that begins to wait after a knock has completed is not
\* released by that knock, only by a later completed knock of the server
C33_SignalIsResetAtOnce == []EventNeverObservedSet /\ [][WaitBeginsUnreleased]_vars

\* a task that began to wait after the server's first signal, released by
\* the second
C33_Witness ==
    \E w \in Waiters :
        /\ waiters[w].pc = "woken"
        /\ waiters[w].since >= 1
        /\ heap[waiters[w].obj].signals = waiters[w].since + 1

InRegistrationOrder(seq) == \A i, j \in 1..Len(seq) : i < j => seq[i] < seq[j]

\* C34: iter() yields the tracked servers and iter(group) the tracked
\* servers of the group, each once and in the order of their registration
\* (objects are numbered as they are made); a group without servers yields
\* nothing; an iteration changes no state and starts no knock
C34_IterYieldsRegistrationOrder ==
    /\ LET all == iter(servers, servers_by_guild, None)
       IN  Range(all) = Tracked /\ InRegistrationOrder(all)
    /\ \A g \in Guilds :
          LET of_g == iter(servers, servers_by_guild, Some(g))
          IN  /\ Range(of_g) = {obj \in Tracked : heap[obj].discord_guild_id = g}
              /\ InRegistrationOrder(of_g)
    /\ api.op = "iter" => \A t \in Tasks : frame[t] = IdleFrame

\* the header's checksum is not the 32-bit sum of the buffer
WrongChecksum(buf) == int_from_bytes(Slice(buf, 0, 4)) # Wrap32(net_checksum(buf, 4))

\* C35: decode checks the length, then the checksum, then the type tag, and
\* the first check that fails names the error: a buffer of 8 bytes or more
\* with a wrong checksum fails with BadChecksumError whatever its tag, and
\* is handed to no payload decoder
C35_FirstFailingCheckDecides ==
    codec.pc = "decoded" =>
        LET buf == codec.buf
            res == codec.res[1]
        IN  IF Len(buf) < 8 THEN ~res.ok /\ res.exc = "MissingHeaderError"
            ELSE IF ~res.ok /\ res.exc = "BadChecksumError" THEN TRUE
            ELSE /\ ~WrongChecksum(buf)
                 /\ buf[7] \notin PacketType => (~res.ok /\ res.exc = "PacketTypeError")

\* a buffer whose tag byte was changed to no packet type, which makes its
\* checksum wrong as well, has been decoded
C35_Witness ==
    /\ codec.pc = "decoded"
    /\ Len(codec.buf) >= 8
    /\ codec.buf[7] \notin PacketType
    /\ codec.res[1].exc = "BadChecksumError"
    /\ Damaged = {7}

RemovedIsInNoIndex ==
    \A obj \in api.removed :
        /\ obj \notin Tracked
        /\ \A g \in DOMAIN servers_by_guild : obj \notin Range(servers_by_guild[g])

NoKnockBeginsOnRemoved ==
    (frame'["poll"].pc = "create_socket" /\ frame["poll"].pc # "create_socket") =>
        frame'["poll"].obj \notin api.removed

\* C36: once remove(server) has completed the poll loop begins no knock of
\* that server, in the cycle under way or in a later one; a knock of it
\* that was in flight runs to its end, and the server it refreshes is in
\* neither index
C36_RemovedServerIsNotKnockedAgain ==
    []RemovedIsInNoIndex /\ [][NoKnockBeginsOnRemoved]_vars

\* a server was knocked, then removed between two cycles, and the next
\* cycle knocks the server that is left
C36_Witness ==
    /\ poll.cycle = 2
    /\ poll.pc = "knock"
    /\ frame["poll"].obj \notin api.removed
    /\ \E obj \in api.removed : heap[obj].signals >= 1

\* C37: the poll loop goes on after failures: under fair scheduling every
\* period is followed by the next, in which the tracked servers are
\* knocked again, also when a knock of the period failed
C37_EveryPeriodIsFollowedByTheNext ==
    \A c \in 1..(MaxCycles - 1) : (poll.cycle = c) ~> (poll.cycle = c + 1)

\* C38: the roster a knock returns holds every player slot number at most
\* once, also when a player-info datagram arrives twice or the remote
\* answers a second ask
C38_RosterHoldsEachSlotOnce ==
    \A t \in Tasks :
        frame[t].pc = "returned" =>
            \A i, j \in 1..Len(frame[t].players) :
                frame[t].players[i].num = frame[t].players[j].num => i = j

\* C39: when an add, remove or load has finished, by returning or by
\* raising, the ids of the primary mapping are the ids of the stored
\* registrations; an add whose remote WatchedServer(...) rejects leaves no
\* registration stored
C39_TrackedIdsAreStoredIds ==
    api.op \in {"add", "remove", "load"} => {servers[i].id : i \in 1..Len(servers)} = Ids(db)

WokenReadsRefreshedData ==
    \A w \in Waiters :
        waiters[w].pc = "woken" =>
            LET server == heap[waiters[w].obj]
            IN  /\ server.info # None
                /\ server.last_updated # None
                /\ server.last_updated[1] > waiters[w].since

SignalFollowsStore ==
    \A obj \in 1..Len(heap) :
        heap'[obj].signals # heap[obj].signals =>
            \E t \in Tasks :
                /\ frame'[t].pc = "returned" /\ frame'[t].obj = obj
                /\ heap'[obj].info = frame'[t].info
                /\ heap'[obj].players = frame'[t].players
                /\ heap'[obj].last_updated = Some(heap'[obj].signals)

\* C40: when a knock that succeeded signals the event, info, players and
\* last_updated of the server hold the result of that knock already, so a
\* task the signal releases reads the refreshed data
C40_SignalComesAfterTheResult == []WokenReadsRefreshedData /\ [][SignalFollowsStore]_vars

\* a task released by the server's second successful knock, whose roster
\* and time of update the server holds
C40_Witness ==
    \E w \in Waiters :
        /\ waiters[w].pc = "woken"
        /\ heap[waiters[w].obj].last_updated = Some(2)
        /\ heap[waiters[w].obj].players # <<>>
        /\ waiters[w].since = 1
====
